---- MODULE Spec2Model ----
(***************************************************************************)
(* A model of src/translate.py (ChangelogTranslator): the orchestrated     *)
(* run (fetch, compare, decide, extract, translate with retries, merge,    *)
(* persist, notify) over the five files it keeps, and the pure text        *)
(* functions it is built from.                                             *)
(*                                                                         *)
(* Text is a sequence of code points (integers).  A file is either absent  *)
(* (None, the empty tuple) or holds a value v (Some(v), a one-element      *)
(* tuple), so that a missing file and an empty file differ.                *)
(***************************************************************************)
EXTENDS Integers, Sequences, FiniteSets, TLC

----------------------------------------------------------------------------
(* Code points used by the program's texts. *)
NL == 10
SP == 32
HASH == 35
DASH == 45
GT == 62
DIGIT0 == 48
STAR == 42

None == << >>
Some(v) == << v >>
IsSome(f) == Len(f) = 1
Get(f) == f[1]

Min(a, b) == IF a <= b THEN a ELSE b

(* Python's truth value of an Optional[str]: None and "" are both false. *)
Truthy(optText) == IsSome(optText) /\ Len(Get(optText)) > 0

----------------------------------------------------------------------------
(* Python str operations, restricted to the line boundary "\n". *)

(* s[start:end] for 0 <= start, 0 <= end: out-of-range indices are clipped. *)
Slice(s, start, end) == SubSeq(s, start + 1, Min(end, Len(s)))

(* s[start:] *)
SliceFrom(s, start) == SubSeq(s, start + 1, Len(s))

StartsWith(s, prefix) ==
    /\ Len(prefix) <= Len(s)
    /\ SubSeq(s, 1, Len(prefix)) = prefix

EndsWith(s, suffix) ==
    /\ Len(suffix) <= Len(s)
    /\ SubSeq(s, Len(s) - Len(suffix) + 1, Len(s)) = suffix

IsSpace(c) == c \in {SP, NL, 9, 11, 12, 13}

RECURSIVE LStrip(_)
LStrip(s) == IF s # << >> /\ IsSpace(Head(s)) THEN LStrip(Tail(s)) ELSE s

RECURSIVE RStrip(_)
RStrip(s) ==
    IF s # << >> /\ IsSpace(s[Len(s)]) THEN RStrip(SubSeq(s, 1, Len(s) - 1)) ELSE s

(* str.strip() *)
Strip(s) == RStrip(LStrip(s))

(* str.splitlines(): no empty last line after a final line break, "" has no *)
(* lines.                                                                   *)
RECURSIVE SplitFrom(_, _)
SplitFrom(s, i) ==
    IF i > Len(s) THEN << >>
    ELSE IF \E j \in i..Len(s) : s[j] = NL
    THEN LET j == CHOOSE j \in i..Len(s) :
                      s[j] = NL /\ \A k \in i..(j - 1) : s[k] # NL
         IN  << SubSeq(s, i, j - 1) >> \o SplitFrom(s, j + 1)
    ELSE << SubSeq(s, i, Len(s)) >>

splitlines(s) == SplitFrom(s, 1)

(* sep.join(parts) *)
RECURSIVE join(_, _)
join(sep, parts) ==
    IF parts = << >> THEN << >>
    ELSE IF Len(parts) = 1 THEN parts[1]
    ELSE parts[1] \o sep \o join(sep, Tail(parts))

(* str.find(sub): the 0-based index of the first occurrence, or -1. *)
Occurrences(s, sub) ==
    { i \in 0..(Len(s) - Len(sub)) : SubSeq(s, i + 1, i + Len(sub)) = sub }

find(s, sub) ==
    IF Occurrences(s, sub) = { } THEN -1
    ELSE CHOOSE i \in Occurrences(s, sub) : \A j \in Occurrences(s, sub) : i <= j

(* str(n) for n >= 0, in decimal. *)
RECURSIVE str(_)
str(n) == IF n < 10 THEN << DIGIT0 + n >> ELSE str(n \div 10) \o << DIGIT0 + (n % 10) >>

IsDigits(s) == s # << >> /\ \A i \in 1..Len(s) : s[i] \in DIGIT0..(DIGIT0 + 9)

RECURSIVE DigitsValue(_)
DigitsValue(s) ==
    IF s = << >> THEN 0 ELSE 10 * DigitsValue(SubSeq(s, 1, Len(s) - 1)) + (s[Len(s)] - DIGIT0)

----------------------------------------------------------------------------
(* Configuration set in __init__ and in the signatures. *)
full_translation_interval == 10
max_versions_to_translate == 50
max_retries == 3
BackoffUnit == 10
HeadScan == 10
SafetyMargin == 50
TerminatorLen == 5

(* The fixed texts.  The Japanese title and notes are abbreviated; the     *)
(* structure of the header is kept: a "# " title line, a blank line, three *)
(* "> " lines (time stamp, URL with single dashes, version count), a blank *)
(* line, and the terminator "---\n\n" at its very end and nowhere before.  *)
HeaderTerminator == << DASH, DASH, DASH, NL, NL >>
Separator == << NL, NL >>
H1 == << HASH, SP >>
H2 == << HASH, HASH, SP >>
H2Changelog == << HASH, HASH, SP, 67, 104, 97, 110, 103, 101, 108, 111, 103 >>
changelog_url == << 99, DASH, 99 >>
Title == << 67, 67 >>

(* get_jst_now().strftime(...): the clock reading printed in decimal. *)
strftime(now) == str(now)

Header(now) ==
    H1 \o Title \o << NL, NL >>
       \o << GT, SP >> \o strftime(now) \o << SP, SP, NL >>
       \o << GT, SP >> \o changelog_url \o << SP, SP, NL >>
       \o << GT, SP >> \o str(max_versions_to_translate) \o << NL, NL >>
       \o HeaderTerminator

(* hashlib.sha256(content.encode()).hexdigest(): a digest that no two      *)
(* contents share; the digest of a content is modelled as a value that     *)
(* records it, and is only ever compared for equality.                     *)
calculate_hash(content) == [sha256 |-> content]

----------------------------------------------------------------------------
(* extract_recent_versions: the lines up to and including the             *)
(* max_versions-th version heading, then the two note lines; the whole     *)
(* document re-joined when it has fewer headings.                          *)
IsVersionLine(line) ==
    /\ StartsWith(Strip(line), H2)
    /\ ~ StartsWith(Strip(line), H2Changelog)

RECURSIVE RecentLoop(_, _, _, _, _)
RecentLoop(lines, i, versions_found, output_lines, max_versions) ==
    IF i > Len(lines) THEN output_lines
    ELSE LET line == lines[i]
             out == Append(output_lines, line)
             found == IF IsVersionLine(line) THEN versions_found + 1 ELSE versions_found
         IN  IF IsVersionLine(line) /\ found >= max_versions
             THEN out \o << << NL, DASH, DASH, DASH >>,
                            << NL, STAR >> \o str(max_versions) \o << STAR >> >>
             ELSE RecentLoop(lines, i + 1, found, out, max_versions)

extract_recent_versions(content, max_versions) ==
    join(<< NL >>, RecentLoop(splitlines(content), 1, 0, << >>, max_versions))

----------------------------------------------------------------------------
(* extract_new_entries *)

(* The loop over new_lines[:10]: i + 1 for the first line whose stripped   *)
(* text starts with "# ", else 0.                                          *)
RECURSIVE HeaderScan(_, _)
HeaderScan(new_lines, i) ==
    IF i >= Min(HeadScan, Len(new_lines)) THEN 0
    ELSE IF StartsWith(Strip(new_lines[i + 1]), H1) THEN i + 1
    ELSE HeaderScan(new_lines, i + 1)

header_lines(new_lines) == HeaderScan(new_lines, 0)

diff_count(old_content, new_content) ==
    Len(splitlines(new_content)) - Len(splitlines(old_content))

(* end_index without the header offset. *)
end_index_without_header(old_content, new_content) ==
    Min(diff_count(old_content, new_content) + SafetyMargin,
        Len(splitlines(new_content)))

end_index(old_content, new_content) ==
    LET new_lines == splitlines(new_content)
    IN  Min(diff_count(old_content, new_content) + header_lines(new_lines) + SafetyMargin,
            Len(new_lines))

extract_new_entries(old_content, new_content) ==
    LET new_lines == splitlines(new_content)
    IN  IF diff_count(old_content, new_content) <= 0 THEN None
        ELSE Some(join(<< NL >>,
                       Slice(new_lines, header_lines(new_lines),
                             end_index(old_content, new_content))))

----------------------------------------------------------------------------
(* The two artifacts as a pair of files: out is translated/changelog_ja.md *)
(* and note is translated/note_ready.md.                                   *)

(* save_translation: a fresh header and the content; the content alone.    *)
save_output(content, now) == Some(Header(now) \o content)
save_note(content) == Some(content)

(* append_translation, for an existing artifact: everything after the      *)
(* first header terminator is the old translation.                         *)
(* header_end with rfind in place of find: the last terminator. *)
header_end_rfind(existing) ==
    (IF Occurrences(existing, HeaderTerminator) = { } THEN -1
     ELSE CHOOSE i \in Occurrences(existing, HeaderTerminator) :
              \A j \in Occurrences(existing, HeaderTerminator) : j <= i)
    + TerminatorLen

header_end(existing) == find(existing, HeaderTerminator) + TerminatorLen
old_translation(existing) == SliceFrom(existing, header_end(existing))
(* updated_translation with the old translation first. *)
updated_translation_old_first(new_content, existing) ==
    old_translation(existing) \o Separator \o new_content

updated_translation(new_content, existing) ==
    new_content \o Separator \o old_translation(existing)

(* append_output with a missing artifact read as an empty one. *)
append_output_missing_as_empty(new_content, output_file, now) ==
    Some(Header(now) \o updated_translation(new_content,
             IF IsSome(output_file) THEN Get(output_file) ELSE << >>))

(* What append_translation writes to the headered artifact: the            *)
(* FileNotFoundError branch is save_translation.                           *)
append_output(new_content, output_file, now) ==
    IF IsSome(output_file)
    THEN Some(Header(now) \o updated_translation(new_content, Get(output_file)))
    ELSE save_output(new_content, now)

append_note(new_content, output_file) ==
    IF IsSome(output_file)
    THEN Some(updated_translation(new_content, Get(output_file)))
    ELSE save_note(new_content)

----------------------------------------------------------------------------
(* Bounds of the model. *)

(* Releases in the longest changelog the remote URL serves, when no run is *)
(* killed (enough for the periodic full translation to come due) and when  *)
(* runs are killed.                                                        *)
MaxVersions == 11
KillVersions == 3

(* Runs killed from outside, in all. *)
MaxKills == 1

(* Runs started after the first kill. *)
MaxRunsAfterKill == 1

(* Lines of the longest document handed to extract_new_entries. *)
MaxDocLines == 62

(* What the environment supplies. *)

(* Lines of the fetched documents. *)
LTitle == H1 \o << 67 >>
LVer(n) == H2 \o str(n)
LItem(n) == << DASH, SP >> \o str(n)
Text(lines) == join(<< NL >>, lines)

(* The changelog with releases v, ..., 1, newest first, each a heading and *)
(* an item, under a title line; it ends with a line break.                 *)
RECURSIVE Releases(_)
Releases(v) == IF v = 0 THEN << >> ELSE << LVer(v), LItem(v) >> \o Releases(v - 1)

Changelog(v) == Text(<< LTitle >> \o Releases(v)) \o << NL >>

Changelogs == [ v \in 1..(MaxVersions + KillVersions) |-> Changelog(v) ]

(* The empty document, and a title under three blank lines. *)
DocEmpty == << >>
DocBlank == Text(<< << >>, << >>, << >>, LTitle >>)

(* The documents a run may fetch.  The changelog is published release by   *)
(* release: a run is served the document stored last, that document with   *)
(* one more release, or a document unrelated to it: the empty one, the     *)
(* blank one, the first release.                                           *)
Docs(stored, releases) ==
    { DocEmpty, DocBlank, Changelogs[1] }
    \cup { Changelogs[v] : v \in { w \in 1..releases :
                                     \/ stored = Some(Changelogs[w])
                                     \/ w > 1 /\ stored = Some(Changelogs[w - 1]) } }

(* What the translation capability may answer: a full translation, and a  *)
(* fragment followed by a note set off by "---" and a blank line, as the   *)
(* system prompt asks for.                                                 *)
FullText == << 70 >>
FullText2 == << 71, NL, NL, 72 >>
IncrText == << 105, NL >> \o HeaderTerminator \o << 110 >>
TransTexts(incremental) == IF incremental THEN { IncrText } ELSE { FullText, FullText2 }

(* Readings of the clock when a header is written. *)
Clock == { 7, 12 }

----------------------------------------------------------------------------
VARIABLES
    last_update_file,        \* last_update.txt: None or Some(hash)
    previous_content_file,   \* previous_content.md: None or Some(text)
    output_file,             \* translated/changelog_ja.md: None or Some(text)
    note_ready_file,         \* translated/note_ready.md: None or Some(text)
    translation_count_file,  \* translation_count.txt: None or Some(text)
    discord_webhook,         \* whether DISCORD_WEBHOOK_URL is set
    horizon,                 \* the releases the remote changelog comes to
    pc,                      \* where run() stands
    current_content,         \* run(): the fetched document
    count,                   \* should_do_full_translation(): its local count
    new_entries,             \* run(): what extract_new_entries returned
    branch,                  \* which branch of run() translates
    submitted,               \* translate_changelog(): its argument content
    attempt,                 \* translate_changelog(): the loop variable
    translated,              \* the text translate_changelog returned
    merged,                  \* the body written to the headered artifact
    error,                   \* the exception run() is handling
    snap,                    \* history: the files as the run found them
    calls,                   \* history: capability invocations of the call of
                             \*   translate_changelog under way or just ended
    slept,                   \* history: time slept between these attempts
    posts,                   \* history: notifications posted by this run
    frags,                   \* history: fragments merged since the last save
    notices,                 \* history: calls of send_notification by this run
    sources,                 \* history: the texts whose translations were
                             \*   appended since the last save, newest first
    kills,                   \* history: runs killed so far
    after,                   \* history: runs started since the first kill
    args                     \* the arguments of a function applied on its own

files == << last_update_file, previous_content_file, output_file,
            note_ready_file, translation_count_file >>
locals == << current_content, count, new_entries, branch, submitted, attempt,
             translated, merged, error >>
history == << snap, calls, slept, posts, frags, notices, sources, kills, after >>
config == << discord_webhook, horizon >>
vars == << files, config, pc, locals, history, args >>

Files ==
    [ hash |-> last_update_file, previous |-> previous_content_file,
      output |-> output_file, note |-> note_ready_file,
      counter |-> translation_count_file ]

NoFiles ==
    [ hash |-> None, previous |-> None, output |-> None, note |-> None,
      counter |-> None ]

Terminal == { "unchanged", "notified", "error" }

(* get_last_hash: the hex digest holds no white space for strip() to cut. *)
get_last_hash == last_update_file
get_previous_content == previous_content_file
limited_content == extract_recent_versions(current_content, max_versions_to_translate)

(* current_hash taken of the version-capped text. *)
current_hash_of_limited == calculate_hash(limited_content)

current_hash == calculate_hash(current_content)

(* int(f.read().strip()), with 0 for a missing or unreadable counter. *)
read_count(file) ==
    IF IsSome(file) /\ IsDigits(Strip(Get(file))) THEN DigitsValue(Strip(Get(file))) ELSE 0

ResetLocals ==
    /\ current_content' = << >>
    /\ count' = 0
    /\ new_entries' = None
    /\ branch' = "none"
    /\ submitted' = << >>
    /\ attempt' = 0
    /\ translated' = << >>
    /\ merged' = << >>
    /\ error' = "none"

InitRun ==
    /\ last_update_file = None
    /\ previous_content_file = None
    /\ output_file = None
    /\ note_ready_file = None
    /\ translation_count_file = None
    /\ discord_webhook \in BOOLEAN
    /\ horizon \in { MaxVersions, KillVersions }
    /\ pc = "idle"
    /\ current_content = << >>
    /\ count = 0
    /\ new_entries = None
    /\ branch = "none"
    /\ submitted = << >>
    /\ attempt = 0
    /\ translated = << >>
    /\ merged = << >>
    /\ error = "none"
    /\ snap = NoFiles
    /\ calls = 0
    /\ slept = 0
    /\ posts = 0
    /\ notices = << >>
    /\ sources = << >>
    /\ frags = << >>
    /\ kills = 0
    /\ after = 0
    /\ args = << >>

----------------------------------------------------------------------------
(* run(), lines 390-413: fetch, fingerprint, compare, read the previous    *)
(* document.  No file is written here.                                     *)
(* Changed without the comparison. *)
ChangedAlways(hash, last_hash) == TRUE

(* Line 405, negated: an absent fingerprint differs from every digest. *)
Changed(hash, last_hash) == Some(hash) # last_hash

(* CallsPolicy without the short circuit of `and`. *)
CallsPolicyAlways(old_content) == TRUE

(* Line 416, its left operand: should_do_full_translation() is called     *)
(* only when old_content is neither None nor empty.                        *)
CallsPolicy(old_content) == Truthy(old_content)

Fetch ==
    /\ pc = "idle"
    /\ kills = 0 \/ after < MaxRunsAfterKill
    /\ after' = IF kills = 0 THEN 0 ELSE after + 1
    /\ \E d \in Docs(get_previous_content, horizon) :
         /\ current_content' = d
         /\ IF ~ Changed(calculate_hash(d), get_last_hash)
            THEN pc' = "unchanged" /\ branch' = "none" /\ submitted' = << >>
            ELSE IF CallsPolicy(get_previous_content)
            THEN pc' = "policy" /\ branch' = "none" /\ submitted' = << >>
            ELSE /\ pc' = "translate"
                 /\ branch' = "first"
                 /\ submitted' = extract_recent_versions(d, max_versions_to_translate)
    /\ snap' = Files
    /\ calls' = 0 /\ slept' = 0 /\ posts' = 0 /\ notices' = << >>
    /\ UNCHANGED << files, config, count, new_entries, attempt,
                    translated, merged, error, frags, sources, kills, args >>

(* fetch_changelog raises (network fault, non-2xx). *)
FetchFails ==
    /\ pc = "idle"
    /\ kills = 0 \/ after < MaxRunsAfterKill
    /\ after' = IF kills = 0 THEN 0 ELSE after + 1
    /\ pc' = "except"
    /\ error' = "fetch"
    /\ snap' = Files
    /\ calls' = 0 /\ slept' = 0 /\ posts' = 0 /\ notices' = << >>
    /\ UNCHANGED << files, config, current_content, count,
                    new_entries, branch, submitted, attempt, translated, merged,
                    frags, sources, kills, args >>

(* should_do_full_translation, lines 166-175: read, increment, write. *)
PolicyIncrement ==
    /\ pc = "policy"
    /\ count' = read_count(translation_count_file) + 1
    /\ translation_count_file' = Some(str(count'))
    /\ pc' = "policy_check"
    /\ UNCHANGED << last_update_file, previous_content_file, output_file,
                    note_ready_file, config, current_content,
                    new_entries, branch, submitted, attempt, translated, merged,
                    error, history, args >>

(* should_do_full_translation, lines 177-182, and the branch of run() it   *)
(* selects, lines 416-430, up to the call of translate_changelog.          *)
(* PolicyDecision with > for >=. *)
PolicyDecisionStrict(c) == c > full_translation_interval

PolicyDecision(c) == c >= full_translation_interval

(* BranchFor with `is not None` for the truth value. *)
BranchForNotNone(entries) == IF IsSome(entries) THEN "incremental" ELSE "fallback"

(* Line 420: `if new_entries:` is false for None and for "". *)
BranchFor(entries) == IF Truthy(entries) THEN "incremental" ELSE "fallback"

PolicyCheck ==
    /\ pc = "policy_check"
    /\ IF PolicyDecision(count)
       THEN /\ translation_count_file' = Some(str(0))
            /\ new_entries' = None
            /\ branch' = "periodic"
            /\ submitted' = limited_content
       ELSE /\ UNCHANGED translation_count_file
            /\ new_entries' =
                   extract_new_entries(Get(get_previous_content), current_content)
            /\ branch' = BranchFor(new_entries')
            /\ submitted' = IF branch' = "incremental"
                            THEN Get(new_entries') ELSE limited_content
    /\ pc' = "translate"
    /\ UNCHANGED << last_update_file, previous_content_file, output_file,
                    note_ready_file, config, current_content, count,
                    attempt, translated, merged, error, history, args >>

(* is_incremental with the fallback taken for an incremental run. *)
is_incremental_or_fallback == branch \in { "incremental", "fallback" }

(* Lines 421, 425, 430: is_incremental=True is passed by the incremental   *)
(* branch alone, which is also the only one to call append_translation.    *)
is_incremental == branch = "incremental"

(* translate_changelog: one attempt that returns. *)
TranslateReturns ==
    /\ pc = "translate"
    /\ \E t \in TransTexts(is_incremental) : translated' = t
    /\ calls' = calls + 1
    /\ pc' = "merge"
    /\ UNCHANGED << files, config, current_content, count,
                    new_entries, branch, submitted, attempt, merged, error, snap,
                    slept, posts, frags, notices, sources, kills, after,
                    args >>

(* translate_changelog: one attempt that raises; sleep and retry, or       *)
(* re-raise after the last attempt.                                        *)
(* wait_time counted from the loop variable as it stands. *)
wait_time_zero_based(a) == a * BackoffUnit

(* Line 193. *)
wait_time(a) == (a + 1) * BackoffUnit
(* IsLastAttempt one attempt late. *)
IsLastAttemptLate(a) == ~ (a < max_retries)

IsLastAttempt(a) == ~ (a < max_retries - 1)

TranslateRaises ==
    /\ pc = "translate"
    /\ calls' = calls + 1
    /\ IF IsLastAttempt(attempt)
       THEN /\ pc' = "except"
            /\ error' = "translation"
            /\ UNCHANGED << attempt, slept >>
       ELSE /\ slept' = slept + wait_time(attempt)
            /\ attempt' = attempt + 1
            /\ UNCHANGED << pc, error >>
    /\ UNCHANGED << files, config, current_content, count,
                    new_entries, branch, submitted, translated, merged, snap,
                    posts, frags, notices, sources, kills, after, args >>

(* append_translation / save_translation: the write of the headered        *)
(* artifact.                                                               *)
MergeOutput ==
    /\ pc = "merge"
    /\ \E now \in Clock :
         output_file' = IF is_incremental
                        THEN append_output(translated, output_file, now)
                        ELSE save_output(translated, now)
    /\ merged' = IF is_incremental /\ IsSome(output_file)
                 THEN updated_translation(translated, Get(output_file))
                 ELSE translated
    /\ frags' = IF is_incremental THEN << translated >> \o frags ELSE << translated >>
    /\ sources' = IF is_incremental THEN << submitted >> \o sources ELSE << >>
    /\ attempt' = 0 /\ calls' = 0 /\ slept' = 0
    /\ pc' = "merge_note"
    /\ UNCHANGED << last_update_file, previous_content_file, note_ready_file,
                    translation_count_file, config, current_content,
                    count, new_entries, branch, submitted, translated, error,
                    snap, posts, notices, kills, after, args >>

(* append_translation / save_translation: the write of the header-stripped *)
(* artifact.                                                               *)
MergeNote ==
    /\ pc = "merge_note"
    /\ note_ready_file' = Some(merged)
    /\ pc' = "persist"
    /\ UNCHANGED << last_update_file, previous_content_file, output_file,
                    translation_count_file, config, locals, history,
                    args >>

(* run(), lines 433-434: the two writes of the commit, in this order. *)
(* PersistOrder with the two writes exchanged. *)
PersistOrderHashFirst == << "hash", "previous_content" >>

PersistOrder == << "previous_content", "hash" >>

PersistWrite(what) ==
    IF what = "previous_content"
    THEN /\ previous_content_file' = Some(current_content)
         /\ UNCHANGED last_update_file
    ELSE /\ last_update_file' = Some(current_hash)
         /\ UNCHANGED previous_content_file

PersistFirst ==
    /\ pc = "persist"
    /\ PersistWrite(PersistOrder[1])
    /\ pc' = "persist_second"
    /\ UNCHANGED << output_file, note_ready_file, translation_count_file,
                    config, locals, history, args >>

PersistSecond ==
    /\ pc = "persist_second"
    /\ PersistWrite(PersistOrder[2])
    /\ pc' = "notify"
    /\ UNCHANGED << output_file, note_ready_file, translation_count_file,
                    config, locals, history, args >>

(* send_notification: nothing is posted without a webhook (lines 332-334); *)
(* with one, a post is attempted and either goes through or raises.        *)
PostOutcomes == IF discord_webhook THEN { "posted", "failed" } ELSE { "skipped" }

Posted == IF discord_webhook THEN posts + 1 ELSE posts

(* send_notification without its try/except. *)
send_notification_uncaught(outcome) ==
    IF outcome = "failed" THEN "raised" ELSE "returned"

(* Lines 375-380: an exception of the post is caught and printed, so the   *)
(* call returns whatever the outcome.                                      *)
send_notification(outcome) == "returned"

(* The handler without its `raise`. *)
ReraisesNever == FALSE

(* Line 453: the handler ends with a bare `raise`. *)
Reraises == TRUE

(* run(), line 443: the notification of success; run() then returns, or an *)
(* exception of the call reaches the handler of line 449.                  *)
NotifySuccess ==
    /\ pc = "notify"
    /\ \E outcome \in PostOutcomes :
         /\ notices' = Append(notices, [ kind |-> "success", outcome |-> outcome ])
         /\ IF send_notification(outcome) = "raised"
            THEN pc' = "except" /\ error' = "notification"
            ELSE pc' = "notified" /\ UNCHANGED error
    /\ posts' = Posted
    /\ UNCHANGED << files, config, current_content, count, new_entries, branch,
                    submitted, attempt, translated, merged, snap, calls, slept,
                    frags, sources, kills, after, args >>

(* run(), lines 449-453: the notification of the error, then raise; an     *)
(* exception of the call would leave the handler in place of the original. *)
NotifyError ==
    /\ pc = "except"
    /\ \E outcome \in PostOutcomes :
         /\ notices' = Append(notices, [ kind |-> "error", outcome |-> outcome ])
         /\ error' = IF send_notification(outcome) = "raised"
                     THEN "notification" ELSE error
         /\ pc' = IF Reraises \/ send_notification(outcome) = "raised"
                  THEN "error" ELSE "notified"
    /\ posts' = Posted
    /\ UNCHANGED << files, config, current_content, count, new_entries, branch,
                    submitted, attempt, translated, merged, snap, calls, slept,
                    frags, sources, kills, after, args >>

(* The process ends; the next run starts from the files alone. *)
Exit ==
    /\ pc \in Terminal
    /\ pc' = "idle"
    /\ ResetLocals
    /\ snap' = NoFiles
    /\ calls' = 0 /\ slept' = 0 /\ posts' = 0 /\ notices' = << >>
    /\ UNCHANGED << files, config, frags, sources, kills, after, args >>

(* The process is killed from outside while run() is under way: the       *)
(* files stay as they are and everything else is gone.                     *)
Kill ==
    /\ pc \notin Terminal \cup { "idle" }
    /\ kills < MaxKills
    /\ kills' = kills + 1
    /\ pc' = "idle"
    /\ ResetLocals
    /\ snap' = NoFiles
    /\ calls' = 0 /\ slept' = 0 /\ posts' = 0 /\ notices' = << >>
    /\ UNCHANGED << files, config, frags, sources, after, args >>

Next ==
    \/ Fetch
    \/ FetchFails
    \/ PolicyIncrement
    \/ PolicyCheck
    \/ TranslateReturns
    \/ TranslateRaises
    \/ MergeOutput
    \/ MergeNote
    \/ PersistFirst
    \/ PersistSecond
    \/ NotifySuccess
    \/ NotifyError
    \/ Exit

(* Runs that are left to finish: each returns or raises. *)
Init == InitRun /\ horizon = MaxVersions

Spec == Init /\ [][Next]_vars

(* Runs that may also be killed at any point. *)
NextKill == Next \/ Kill

InitKill == InitRun /\ discord_webhook /\ horizon = KillVersions

SpecKill == InitKill /\ [][NextKill]_vars

----------------------------------------------------------------------------
(* extract_new_entries applied on its own, to documents of up to           *)
(* MaxDocLines lines: old documents of distinct lines, new documents of    *)
(* distinct or of empty lines with one line put at a chosen place.         *)
DocLens == 0..3 \cup (MaxDocLines - 2)..MaxDocLines

PlacedLines ==
    { LTitle,                       \* "# C"
      << SP, SP >> \o LTitle,       \* "  # C"
      H1,                           \* "# "
      H2 \o << 67 >>,               \* "## C"
      << HASH, 67 >> }              \* "#C"

Places == { 0, 1, 2, HeadScan - 1, HeadScan }

GenLines(n, place, placed, blank) ==
    [ i \in 1..n |-> IF i = place + 1 THEN placed
                     ELSE IF blank THEN << >> ELSE LItem(i) ]

OldDocs == { Text(GenLines(n, n, << >>, FALSE)) : n \in DocLens }

NewDocs ==
    { Text(GenLines(n, place, placed, blank)) :
        n \in DocLens, place \in Places, placed \in PlacedLines, blank \in BOOLEAN }

InitExtract ==
    /\ last_update_file = None
    /\ previous_content_file \in { Some(d) : d \in OldDocs }
    /\ output_file = None
    /\ note_ready_file = None
    /\ translation_count_file = None
    /\ discord_webhook = FALSE
    /\ horizon = 0
    /\ pc = "extract"
    /\ current_content \in NewDocs
    /\ count = 0
    /\ new_entries = None
    /\ branch = "none"
    /\ submitted = << >>
    /\ attempt = 0
    /\ translated = << >>
    /\ merged = << >>
    /\ error = "none"
    /\ snap = NoFiles
    /\ calls = 0
    /\ slept = 0
    /\ posts = 0
    /\ notices = << >>
    /\ sources = << >>
    /\ frags = << >>
    /\ kills = 0
    /\ after = 0
    /\ args = << >>

(* run(), lines 418-420: the call and the test of its result. *)
ExtractCall ==
    /\ pc = "extract"
    /\ new_entries' = extract_new_entries(Get(get_previous_content), current_content)
    /\ branch' = BranchFor(new_entries')
    /\ pc' = "extracted"
    /\ UNCHANGED << files, config, current_content, count, submitted,
                    attempt, translated, merged, error, history, args >>

SpecExtract == InitExtract /\ [][ExtractCall]_vars

----------------------------------------------------------------------------
(* append_translation applied twice on its own: to an artifact that        *)
(* save_translation wrote, to a missing one, and to a file of any text.    *)
MergeTexts ==
    { << >>,
      << 120 >>,
      << NL >>,
      << DASH, DASH >>,
      HeaderTerminator,
      << 121 >> \o HeaderTerminator \o << 122 >> }

InitMerge ==
    /\ args \in [ F1 : MergeTexts, F2 : MergeTexts, B : MergeTexts,
                  kind : { "saved", "missing", "any" } ]
    /\ last_update_file = None
    /\ previous_content_file = None
    /\ output_file \in
         CASE args.kind = "saved" -> { save_output(args.B, now) : now \in Clock }
           [] args.kind = "missing" -> { None }
           [] OTHER -> { Some(args.B) }
    /\ note_ready_file =
         IF args.kind = "saved" THEN save_note(args.B) ELSE None
    /\ translation_count_file = None
    /\ discord_webhook = FALSE
    /\ horizon = 0
    /\ pc = "append"
    /\ current_content = << >>
    /\ count = 0
    /\ new_entries = None
    /\ branch = "none"
    /\ submitted = << >>
    /\ attempt = 0
    /\ translated = << >>
    /\ merged = << >>
    /\ error = "none"
    /\ snap = NoFiles
    /\ calls = 0
    /\ slept = 0
    /\ posts = 0
    /\ notices = << >>
    /\ sources = << >>
    /\ frags = << >>
    /\ kills = 0
    /\ after = 0

(* append_translation(new_content), whole: both files written.  calls      *)
(* counts the appends made; the first appends F1 and the second F2.        *)
AppendCall ==
    /\ pc = "append"
    /\ LET new_content == IF calls = 0 THEN args.F1 ELSE args.F2
       IN  /\ \E now \in Clock :
                output_file' = append_output(new_content, output_file, now)
           /\ note_ready_file' = append_note(new_content, output_file)
           /\ translated' = new_content
    /\ calls' = calls + 1
    /\ pc' = IF calls' = 2 THEN "appended" ELSE "append"
    /\ UNCHANGED << last_update_file, previous_content_file,
                    translation_count_file, config, current_content,
                    count, new_entries, branch, submitted, attempt, merged,
                    error, snap, slept, posts, frags, notices, sources, kills,
                    after, args >>

SpecMerge == InitMerge /\ [][AppendCall]_vars

----------------------------------------------------------------------------
(* Properties of run(), checked under Spec unless said otherwise. *)

(* A run that found a change and has left the decision behind it. *)
Decided ==
    /\ pc \in { "translate", "merge", "merge_note", "persist", "persist_second",
                "notify", "notified", "except", "error" }
    /\ error # "fetch"

(* A run whose merge is complete. *)
MergeDone == pc \in { "persist", "persist_second", "notify", "notified" }

(* A run under way or just ended that fetched its document. *)
Fetched == pc # "idle" /\ error # "fetch"

(* C1: when every attempt of the translation capability raises, run()     *)
(* has made exactly max_retries attempts, is in its error handler or has   *)
(* raised, and the fingerprint and the raw document are those the run      *)
(* found; no further attempt is made after max_retries.                    *)
C1_RetriesExhausted ==
    /\ pc = "translate" => calls = attempt /\ attempt < max_retries
    /\ error = "translation" =>
         /\ pc \in { "except", "error" }
         /\ calls = max_retries
         /\ last_update_file = snap.hash
         /\ previous_content_file = snap.previous

C1_Witness ==
    /\ pc = "error"
    /\ error = "translation"
    /\ branch = "incremental"
    /\ IsSome(snap.hash)

(* C2: a run whose fetched document has the stored fingerprint ends        *)
(* UNCHANGED; it has called the translation capability and posted a        *)
(* notification zero times and all five files are as it found them.        *)
C2_UnchangedRun ==
    (Fetched /\ snap.hash = Some(calculate_hash(current_content))) =>
        /\ pc = "unchanged"
        /\ calls = 0
        /\ posts = 0
        /\ Files = snap

C2_Witness ==
    /\ pc = "unchanged"
    /\ discord_webhook
    /\ IsSome(snap.output)
    /\ IsSome(snap.counter)

(* C3: once a run has persisted (it is notifying or has notified), the     *)
(* stored fingerprint is the fingerprint of the stored raw document and    *)
(* that document is the one this run fetched; and between runs the two     *)
(* files are both absent or agree, whatever runs came before.              *)
C3_FingerprintOfStored ==
    /\ pc \in { "notify", "notified" } =>
         /\ previous_content_file = Some(current_content)
         /\ last_update_file = Some(calculate_hash(Get(previous_content_file)))
    /\ pc \in { "idle", "unchanged", "error" } =>
         \/ last_update_file = None /\ previous_content_file = None
         \/ /\ IsSome(previous_content_file)
            /\ last_update_file = Some(calculate_hash(Get(previous_content_file)))

C3_Witness ==
    /\ pc = "notified"
    /\ branch = "incremental"
    /\ current_content # limited_content

(* C4 (under SpecKill): at no point of a run, killed or not, is the stored *)
(* fingerprint a new one while the stored raw document is not the fetched  *)
(* one; and a run that finds the raw document ahead of the fingerprint and *)
(* fetches that same document does not end UNCHANGED.                      *)
C4_RawBeforeFingerprint ==
    /\ (pc # "idle" /\ last_update_file # snap.hash) =>
         /\ previous_content_file = Some(current_content)
         /\ last_update_file = Some(calculate_hash(current_content))
    /\ ( /\ Fetched
         /\ snap.previous = Some(current_content)
         /\ snap.hash # Some(calculate_hash(current_content)) ) =>
         pc # "unchanged"

C4_Witness ==
    /\ kills = 1
    /\ pc = "notified"
    /\ IsSome(snap.hash)
    /\ snap.previous = Some(current_content)
    /\ snap.hash # Some(calculate_hash(current_content))

(* The fresh state of C5: no fingerprint, no raw document, counter 0. *)
FreshStart ==
    /\ snap.hash = None
    /\ snap.previous = None
    /\ read_count(snap.counter) = 0

CounterRule ==
    LET c == read_count(snap.counter) + 1
    IN  IF c >= full_translation_interval
        THEN branch = "periodic" /\ read_count(translation_count_file) = 0
        ELSE /\ branch \in { "incremental", "fallback" }
             /\ read_count(translation_count_file) = c

CounterInRange ==
    read_count(translation_count_file) \in 0..(full_translation_interval - 1)

ArtifactBody == old_translation(Get(output_file))

(* C7 as stated, run by run: after a successful run the body is this run's *)
(* fragment followed by the body the run found, or the fragment alone if   *)
(* there was none; so nothing saved before is dropped.                     *)
C7_Original ==
    MergeDone =>
        /\ note_ready_file =
             IF IsSome(snap.note)
             THEN Some(translated \o Separator \o Get(snap.note))
             ELSE Some(translated)
        /\ ArtifactBody = Get(note_ready_file)

(* C7, amended: outside the two writes of a merge, the body is the         *)
(* concatenation, newest first, of the fragments merged since and          *)
(* including the last FULL save, in both artifacts.                        *)
C7_BodySinceLastSave ==
    (pc # "merge_note" /\ IsSome(output_file)) =>
        /\ frags # << >>
        /\ note_ready_file = Some(join(Separator, frags))
        /\ \E now \in Clock :
             output_file = Some(Header(now) \o join(Separator, frags))
        /\ ArtifactBody = join(Separator, frags)

C7_Witness ==
    /\ pc = "notified"
    /\ branch = "incremental"
    /\ IsSome(snap.counter)
    /\ read_count(snap.counter) = 0
    /\ Len(frags) = 3
    /\ frags[3] = FullText2

----------------------------------------------------------------------------
(* Properties of append_translation, checked under SpecMerge. *)

(* C8: two appends to an artifact that save_translation wrote with body B  *)
(* leave F2, two newlines, F1, two newlines, B in the header-stripped      *)
(* file, and a header followed by exactly that in the headered one.        *)
C8_AppendOrder ==
    (pc = "appended" /\ args.kind = "saved") =>
        LET body == args.F2 \o << NL, NL >> \o args.F1 \o << NL, NL >> \o args.B
        IN  /\ note_ready_file = Some(body)
            /\ \E now \in Clock : output_file = Some(Header(now) \o body)

C8_Witness ==
    /\ pc = "appended"
    /\ args.kind = "saved"
    /\ args.F1 = HeaderTerminator
    /\ args.F2 = << 120 >>
    /\ Occurrences(args.B, HeaderTerminator) # { }

----------------------------------------------------------------------------
(* Properties of extract_new_entries, checked under SpecExtract. *)

OldLines == splitlines(Get(previous_content_file))
NewLines == splitlines(current_content)
DeltaLines == Len(NewLines) - Len(OldLines)

(* The number of header lines: the place, counted from 1, of the first of  *)
(* the first 10 lines that starts with "# ", as it stands or once          *)
(* stripped; 0 if there is none.                                           *)
HeadingPlace(stripped) ==
    LET starts(line) ==
            StartsWith(IF stripped THEN Strip(line) ELSE line, << HASH, SP >>)
        hits == { i \in 1..Min(10, Len(NewLines)) : starts(NewLines[i]) }
    IN  IF hits = { } THEN 0 ELSE CHOOSE i \in hits : \A j \in hits : i <= j

RangeEnd(stripped) == Min(DeltaLines + HeadingPlace(stripped) + 50, Len(NewLines))

ExpectedEntries(stripped) ==
    IF DeltaLines <= 0 THEN None
    ELSE Some(join(<< NL >>,
                   SubSeq(NewLines, HeadingPlace(stripped) + 1, RangeEnd(stripped))))

(* C9 as stated: the header line is the first that starts with "# ". *)
C9_Original == pc = "extracted" => new_entries = ExpectedEntries(FALSE)

(* C9, amended: the header line is the first whose text, stripped of       *)
(* surrounding white space, starts with "# ".                              *)
C9_ExtractedRange == pc = "extracted" => new_entries = ExpectedEntries(TRUE)

C9_Witness ==
    /\ pc = "extracted"
    /\ IsSome(new_entries)
    /\ HeadingPlace(TRUE) > 1
    /\ DeltaLines + HeadingPlace(TRUE) + 50 < Len(NewLines)

(* C10 as stated: with more lines than before the fragment is non-empty    *)
(* and the run stays INCREMENTAL.                                          *)
C10_Original ==
    (pc = "extracted" /\ DeltaLines > 0) =>
        Truthy(new_entries) /\ branch = "incremental"

(* C10, amended: no fragment is returned exactly when the line count did   *)
(* not grow; the fallback is taken exactly when it did not grow or the     *)
(* extracted range holds no line or one empty line; otherwise the fragment *)
(* is non-empty and the run stays INCREMENTAL.                             *)
C10_EmptyOnlyWhen ==
    pc = "extracted" =>
        LET first == HeadingPlace(TRUE) + 1
            last == RangeEnd(TRUE)
            bare == \/ last < first
                    \/ last = first /\ NewLines[first] = << >>
        IN  /\ new_entries = None <=> DeltaLines <= 0
            /\ branch = "fallback" <=> (DeltaLines <= 0 \/ bare)
            /\ branch = "incremental" <=> Truthy(new_entries)

C10_Witness ==
    /\ pc = "extracted"
    /\ DeltaLines > 0
    /\ new_entries = Some(<< >>)
    /\ branch = "fallback"

----------------------------------------------------------------------------
(* C11: a run that entered the incremental branch and extracted nothing    *)
(* submits the version-capped document, is answered in FULL mode, saves    *)
(* the answer with save_translation (header and answer; answer alone), and *)
(* the counter file holds the value written by the increment: one more     *)
(* than the run found, below the interval, not reset.                      *)
C11_FallbackSavesFull ==
    (Decided /\ branch = "fallback") =>
        /\ submitted = limited_content
        /\ ~ is_incremental
        /\ count = read_count(snap.counter) + 1
        /\ count < full_translation_interval
        /\ translation_count_file = Some(str(count))
        /\ pc = "merge" => translated \in TransTexts(FALSE)
        /\ MergeDone =>
             /\ note_ready_file = Some(translated)
             /\ \E now \in Clock : output_file = Some(Header(now) \o translated)

C11_Witness ==
    /\ pc = "notified"
    /\ branch = "fallback"
    /\ new_entries = None
    /\ IsSome(snap.output)
    /\ count = 2

----------------------------------------------------------------------------
(* The time waited before giving up on the n-th attempt: 10 + 20 + ... *)
RECURSIVE SumWaits(_)
SumWaits(n) == IF n = 0 THEN 0 ELSE n * 10 + SumWaits(n - 1)

(* C12: translate_changelog has invoked the capability once per attempt    *)
(* and never more than max_retries times; it has waited 10, 20, ... time   *)
(* units, one wait after each failed attempt but the last; the first       *)
(* attempt that succeeds ends the call with its answer; after max_retries  *)
(* failures the error is raised, the waits adding up to the sum of k * 10  *)
(* for k = 1..max_retries - 1.                                             *)
C12_RetryBackoff ==
    /\ pc = "translate" =>
         /\ calls = attempt
         /\ calls < max_retries
         /\ slept = SumWaits(attempt)
    /\ pc = "merge" =>
         /\ calls = attempt + 1
         /\ calls <= max_retries
         /\ slept = SumWaits(attempt)
         /\ translated \in TransTexts(is_incremental)
    /\ error = "translation" =>
         /\ pc \in { "except", "error" }
         /\ calls = max_retries
         /\ slept = SumWaits(max_retries - 1)

C12_Witness ==
    /\ pc = "merge"
    /\ calls = max_retries
    /\ slept = 30

----------------------------------------------------------------------------
(* C13: a failure of the notification is never the error of a run: a run   *)
(* that has sent its notification of success has returned, whether the     *)
(* post went through, failed or was skipped, with the fetched document and *)
(* its fingerprint stored and with that one notification only.             *)
C13_NotificationBestEffort ==
    /\ error \in { "none", "fetch", "translation" }
    /\ pc = "notified" =>
         /\ error = "none"
         /\ Len(notices) = 1
         /\ notices[1].kind = "success"
         /\ previous_content_file = Some(current_content)
         /\ last_update_file = Some(current_hash)

C13_Witness ==
    /\ pc = "notified"
    /\ notices = << [ kind |-> "success", outcome |-> "failed" ] >>
    /\ branch = "incremental"

----------------------------------------------------------------------------
(* C14: a run whose fetch or whose translation failed for good calls       *)
(* send_notification exactly once, with the error, and then raises that    *)
(* same error, also when the post fails; it never returns normally.  A     *)
(* run whose fetch failed has left all five files as it found them.        *)
C14_FatalErrorsSurface ==
    /\ error # "none" => pc \in { "except", "error" }
    /\ pc = "except" =>
         /\ error \in { "fetch", "translation" }
         /\ notices = << >>
    /\ pc = "error" =>
         /\ error \in { "fetch", "translation" }
         /\ Len(notices) = 1
         /\ notices[1].kind = "error"
         /\ posts = IF discord_webhook THEN 1 ELSE 0
    /\ error = "fetch" => Files = snap

C14_Witness ==
    /\ pc = "error"
    /\ error = "fetch"
    /\ notices = << [ kind |-> "error", outcome |-> "failed" ] >>
    /\ IsSome(snap.hash)

----------------------------------------------------------------------------
(* extract_recent_versions applied on its own, with caps of 1 to MaxCap,   *)
(* to changelogs of up to MaxSections version sections of 0 to 2 items     *)
(* each, with or without a title line and a final line break (no line     *)
(* break without a line before it).                                        *)
MaxSections == 4
MaxCap == 3

RECURSIVE Items(_, _)
Items(v, k) == IF k = 0 THEN << >> ELSE Items(v, k - 1) \o << LItem(10 * v + k) >>

RECURSIVE Sections(_, _)
Sections(v, k) ==
    IF v = 0 THEN << >> ELSE << LVer(v) >> \o Items(v, k) \o Sections(v - 1, k)

RecentDocs ==
    { Text((IF t[3] THEN << LTitle >> ELSE << >>) \o Sections(t[1], t[2]))
          \o (IF t[4] THEN << NL >> ELSE << >>) :
        t \in { u \in (0..MaxSections) \X (0..2) \X BOOLEAN \X BOOLEAN :
                   u[1] > 0 \/ u[3] \/ ~ u[4] } }

InitRecent ==
    /\ args \in [ doc : RecentDocs, max_versions : 1..MaxCap ]
    /\ last_update_file = None
    /\ previous_content_file = None
    /\ output_file = None
    /\ note_ready_file = None
    /\ translation_count_file = None
    /\ discord_webhook = FALSE
    /\ horizon = 0
    /\ pc = "recent"
    /\ current_content = args.doc
    /\ count = 0
    /\ new_entries = None
    /\ branch = "none"
    /\ submitted = << >>
    /\ attempt = 0
    /\ translated = << >>
    /\ merged = << >>
    /\ error = "none"
    /\ snap = NoFiles
    /\ calls = 0
    /\ slept = 0
    /\ posts = 0
    /\ notices = << >>
    /\ sources = << >>
    /\ frags = << >>
    /\ kills = 0
    /\ after = 0

(* run(), lines 398 and 425/430: the capped text is what a FULL            *)
(* translation submits.                                                    *)
RecentCall ==
    /\ pc = "recent"
    /\ submitted' = extract_recent_versions(current_content, args.max_versions)
    /\ pc' = "capped"
    /\ UNCHANGED << files, config, current_content, count, new_entries, branch,
                    attempt, translated, merged, error, history, args >>

SpecRecent == InitRecent /\ [][RecentCall]_vars

(* The places of the version headings among the lines of the document. *)
DocLines == splitlines(current_content)
VersionPlaces == { i \in 1..Len(DocLines) : IsVersionLine(DocLines[i]) }

(* The last line of the first n sections: the line before the heading of   *)
(* section n + 1.                                                          *)
EndOfSections(n) ==
    (CHOOSE i \in VersionPlaces :
         Cardinality({ j \in VersionPlaces : j < i }) = n) - 1

(* C15 (under SpecRecent): the text submitted for a FULL translation of a  *)
(* document of more than N version sections starts with all the lines of   *)
(* its first N sections and holds no line of a later section; that of a    *)
(* document of at most N sections starts with all the lines of the        *)
(* document.                                                               *)
C15_FirstSectionsComplete ==
    pc = "capped" =>
        LET N == args.max_versions
            out == splitlines(submitted)
        IN  IF Cardinality(VersionPlaces) > N
            THEN /\ Len(out) >= EndOfSections(N)
                 /\ SubSeq(out, 1, EndOfSections(N)) = SubSeq(DocLines, 1, EndOfSections(N))
                 /\ \A i \in (EndOfSections(N) + 1)..Len(DocLines) :
                        \A j \in 1..Len(out) : out[j] # DocLines[i]
            ELSE /\ Len(out) >= Len(DocLines)
                 /\ SubSeq(out, 1, Len(DocLines)) = DocLines

----------------------------------------------------------------------------
(* C16 (under SpecMerge): the first append_translation(F1), made when no   *)
(* headered artifact exists, returns normally and leaves what              *)
(* save_translation(F1) writes: a header followed by exactly F1 in the     *)
(* headered artifact, exactly F1 in the header-stripped one.               *)
C16_AppendToMissingSaves ==
    (args.kind = "missing" /\ calls = 1) =>
        /\ pc = "append"
        /\ note_ready_file = Some(args.F1)
        /\ \E now \in Clock : output_file = Some(Header(now) \o args.F1)

C16_Witness ==
    /\ args.kind = "missing"
    /\ calls = 1
    /\ args.F1 = << 121 >> \o HeaderTerminator \o << 122 >>

----------------------------------------------------------------------------
(* The old content that an append must keep: the body that                 *)
(* save_translation wrote; for a file of any text, the text after its      *)
(* first header terminator, or the whole text when it holds none.          *)
OldContent ==
    IF args.kind = "saved" \/ Occurrences(args.B, HeaderTerminator) = { }
    THEN args.B
    ELSE SliceFrom(args.B, find(args.B, HeaderTerminator) + 5)

(* C17 (under SpecMerge): after append_translation(F1) on an existing      *)
(* artifact, with or without a header terminator in it, the new body is F1 *)
(* and two newlines followed by the complete old content, none of its      *)
(* leading characters cut off.                                             *)
C17_NeverTruncates ==
    (args.kind # "missing" /\ calls = 1) =>
        /\ EndsWith(Get(note_ready_file), OldContent)
        /\ EndsWith(Get(output_file), OldContent)

----------------------------------------------------------------------------
(* C18: a run that raised because the translation failed max_retries times *)
(* has left the counter at the value it found, as it has the fingerprint   *)
(* and the raw document.                                                   *)
C18_CounterAsBeforeFailedRun ==
    (pc = "error" /\ error = "translation") =>
        /\ read_count(translation_count_file) = read_count(snap.counter)
        /\ last_update_file = snap.hash
        /\ previous_content_file = snap.previous

(* C19: between two FULL saves that completed, at most                     *)
(* full_translation_interval - 1 INCREMENTAL merges complete, whatever     *)
(* runs failed or found no change in between.                              *)
C19_PeriodicFullCarriedOut ==
    pc = "notified" => Len(sources) <= full_translation_interval - 1

(* C20 (under SpecKill): after a run that completed, no source fragment    *)
(* has its translation in the body twice, also when a run before it was    *)
(* killed between its append and its commit.                               *)
C20_NoDuplicateAfterKill ==
    pc = "notified" =>
        \A i, j \in 1..Len(sources) : i # j => sources[i] # sources[j]

====
